---- MODULE Spec2Model ----
(***************************************************************************)
(* Guest booking reference and verification scheme of the flight-booking   *)
(* server: supabaseServerHelpers (generatePNR, getOrCreateGuestUser,       *)
(* createGuestBooking, getGuestBookingByPNR, getBookingById,               *)
(* createBooking, updateBookingStatus, updateBooking) and the guest        *)
(* payment-intent handler handleCreateGuestStripePaymentIntent.            *)
(*                                                                         *)
(* Every request handler is a process.  A step is one awaited store or     *)
(* third-party call together with the handler code that runs on its        *)
(* result up to the next await, so handlers interleave at their awaits.    *)
(***************************************************************************)
EXTENDS Integers, Sequences, FiniteSets, TLC

\* ------------------------------------------------------------- bounds
NumProcs == 2       \* request handlers that may be in flight together
MaxOps == 3         \* operations (requests, booking updates) started in one run
MaxBookings == 2    \* booking records the store may hold
MaxChecks == 3      \* manual and periodic status checks asked for in one run
MaxEffects == 2     \* runs of the useServiceStatus effect in one run
NumServices == 2    \* services of checkInitialServices that are followed
MaxRechecks == 1    \* calls of recheckServices() in one run

Procs == 1..NumProcs

\* ---------------------------------------------------------- constants
guestEmail == "guest@onboardticket.system"
chars == << "A","B","C","D","E","F","G","H","I","J","K","L","M",
            "N","O","P","Q","R","S","T","U","V","W","X","Y","Z",
            "0","1","2","3","4","5","6","7","8","9" >>
PnrLength == 6

\* Values Math.floor(Math.random() * chars.length) takes over the six
\* iterations of generatePNR: the draws of "AB12XY" and of "ZZ99ZZ".
PNRDraws == { <<0, 1, 27, 28, 23, 24>>, <<25, 25, 35, 35, 25, 25>> }

\* chars.charAt(i), i counted from 0
\* charAt counting the characters of chars from 1
charAtFromOne(i) == IF i = 0 THEN "" ELSE chars[i]

charAt(i) == chars[i + 1]

\* generatePNR: result += chars.charAt(draw) for i = 0..5
RECURSIVE GenerateFrom(_, _, _)
GenerateFrom(draws, i, result) ==
    IF i < PnrLength
    THEN GenerateFrom(draws, i + 1, Append(result, charAt(draws[i + 1])))
    ELSE result
generatePNR(draws) == GenerateFrom(draws, 0, << >>)

Locators == { generatePNR(d) : d \in PNRDraws }
EmptyString == << >>

\* contact addresses callers supply; "" is a missing field
Emails == { "a@example.com", "wrong@example.com" }
NoEmail == ""
\* bookingData.contact_email of createGuestBooking: any string the caller
\* sends, the address of the guest user included
ContactInputs == { "a@example.com", guestEmail }

\* the account of an authenticated user, present in the users table
AuthUser == [id |-> 1, email |-> "user@example.com", role |-> "user"]
\* bookingData.contact_email of createBooking: an address guests use too
AuthContacts == { "a@example.com" }

Statuses == { "pending", "confirmed", "cancelled" }

\* bookings.is_guest BOOLEAN DEFAULT FALSE: the value of a row inserted
\* without the column
IsGuestDefault == FALSE

\* data: null of a supabase response
Null == [id |-> 0]
NoOp == [kind |-> "none"]
\* a first call of getGuestBookingByPNR: no earlier call to compare with
NoAgain == [called |-> FALSE, data |-> Null, bookings |-> {}]
NoLocal == [newUser |-> Null, guestUserId |-> 0, booking |-> Null, pre |-> {}]
NoOut == [op |-> NoOp, local |-> NoLocal, ret |-> [tag |-> "none"]]

VARIABLES
    users,        \* table public.users
    bookings,     \* table public.bookings
    emailUnique,  \* whether the store has a uniqueness constraint on users.email
    nextUserId,   \* next identifier the store assigns to a users row
    nextBookingId,\* next identifier the store assigns to a bookings row
    pc,           \* pc[p]: the await at which handler p is suspended
    op,           \* op[p]: the operation p runs and its arguments
    local,        \* local[p]: the local variables of the running operation
    out,          \* what the step just taken delivered to a caller: the
                  \* operation, its local variables and what it returned,
                  \* threw or responded (NoOut when no operation ended)
    started,      \* number of operations started so far
    guestMade,    \* history: ids of the bookings createGuestBooking inserted
    resolved,     \* history: identifiers getOrCreateGuestUser has returned
    pnrPc,        \* generatePNR run step by step: where the call stands
    pnrI,         \* generatePNR: the loop counter i
    pnrResult,    \* generatePNR: the string result, one element per character
    statusLogger, \* the ServiceStatusLogger singleton: isLogging, lastCheck
                  \* (whether it is set), the interval timers it scheduled,
                  \* its checks in flight, fetches made and calls counted
    hook,         \* useServiceStatus: isChecking, the handleServiceCheck
                  \* calls awaiting a check (awaited) or about to run their
                  \* finally block (resuming), the effect runs so far
    checker,      \* ServiceStatusChecker.checkAllServices: the position of
                  \* the call, process.env, the results of the checks so far
                  \* and the summary returned
    serviceLogger \* the ServiceLogger instance: the services map, whether
                  \* logInterval is set, the interval timers active, whether
                  \* the timeout of startLogging is still to fire, the checks
                  \* pending per service, the updateServiceStatus calls made
                  \* per service, the rechecks so far and the last report

vars == << users, bookings, emailUnique, nextUserId, nextBookingId,
           pc, op, local, out, started, guestMade, resolved,
           pnrPc, pnrI, pnrResult, statusLogger, hook, serviceLogger,
           checker >>

server == << users, bookings, emailUnique, nextUserId, nextBookingId,
             pc, op, local, out, started, guestMade, resolved >>
generator == << pnrPc, pnrI, pnrResult >>
health == << statusLogger, hook, serviceLogger, checker >>
monitor == << statusLogger, hook, checker >>

\* an environment value is the sequence of the pieces of its text; a value
\* that is not set, or set to the empty text, is the empty sequence
Unset == << >>
UrlValues == { Unset, << "https://", "placeholder", ".supabase.co" >>,
               << "https://", "x", ".supabase.co" >> }
RoleKeyValues == { Unset, << "placeholder", "-service-role-key" >>,
                   << "placeholder" >>, << "x" >> }
SecretKeyValues == { Unset, << "sk_", "placeholder" >>,
                     << "sk_", "test_", "x" >>, << "pk_", "x" >> }
SendGridValues == { Unset, << "SG.", "placeholder" >>, << "SG.", "x" >>,
                    << "x" >> }
IdValues == { Unset, << "placeholder" >>, << "x" >> }
OtherValues == { Unset, << "x" >> }
Environments ==
    [SUPABASE_URL : UrlValues, SUPABASE_SERVICE_ROLE_KEY : RoleKeyValues,
     STRIPE_SECRET_KEY : SecretKeyValues, STRIPE_PUBLISHABLE_KEY : OtherValues,
     SENDGRID_API_KEY : SendGridValues,
     AMADEUS_API_KEY : IdValues, AMADEUS_API_SECRET : OtherValues,
     PAYPAL_CLIENT_ID : IdValues, PAYPAL_CLIENT_SECRET : OtherValues]
NoEnv == [SUPABASE_URL |-> Unset, SUPABASE_SERVICE_ROLE_KEY |-> Unset,
          STRIPE_SECRET_KEY |-> Unset, STRIPE_PUBLISHABLE_KEY |-> Unset,
          SENDGRID_API_KEY |-> Unset,
          AMADEUS_API_KEY |-> Unset, AMADEUS_API_SECRET |-> Unset,
          PAYPAL_CLIENT_ID |-> Unset, PAYPAL_CLIENT_SECRET |-> Unset]
NoSummary == [total |-> 0, working |-> 0, configured |-> 0]

\* the names checkInitialServices passes to checkService
ServiceNames == << "Authentication", "Database", "Email Service", "Stripe",
                   "Amadeus API", "Supabase" >>
Services == { ServiceNames[k] : k \in 1..NumServices }

store == << users, bookings, emailUnique, nextUserId, nextBookingId >>

\* ------------------------------------------------------- store helpers
\* .single(): the row when the query matches exactly one, otherwise data: null
single(rows) ==
    IF Cardinality(rows) = 1 THEN CHOOSE r \in rows : TRUE ELSE Null

\* the error of .single() when the query matches no row or several
singleError(rows) ==
    IF Cardinality(rows) = 1 THEN "none" ELSE "PGRST116"

GuestUsers == { u \in users : u.email = guestEmail }
GuestIds == { u.id : u \in GuestUsers }

\* SelectGuestUser filtering on another address than the one inserted
SelectGuestUserOtherEmail == { u \in users : u.email = "guest@onboardticket.com" }

\* from("users").select("id").eq("email", guestEmail)
SelectGuestUser == { u \in users : u.email = guestEmail }

\* SelectGuestBooking without .eq("user_id", guestUserId)
SelectBookingAnyOwner(pnr, email, guestUserId) ==
    { b \in bookings : b.pnr = pnr /\ b.contact_email = email }

\* SelectGuestBooking without .eq("contact_email", email)
SelectBookingByLocator(pnr, email, guestUserId) ==
    { b \in bookings : b.pnr = pnr /\ b.user_id = guestUserId }

\* from("bookings").select("*").eq("pnr", ..).eq("contact_email", ..).eq("user_id", ..)
SelectGuestBooking(pnr, email, guestUserId) ==
    { b \in bookings : b.pnr = pnr /\ b.contact_email = email
                       /\ b.user_id = guestUserId }

\* from("bookings").select(..).eq("id", id)
SelectBookingById(id) == { b \in bookings : b.id = id }

\* The store rejects an insert into users that repeats an email when it
\* enforces uniqueness of the column.
InsertUserRejected(email) ==
    emailUnique /\ \E u \in users : u.email = email

Running(p) == pc[p] # "idle"

Init ==
    /\ emailUnique \in BOOLEAN
    /\ \E present \in BOOLEAN :
         /\ users = IF present
                    THEN { AuthUser, [id |-> 2, email |-> guestEmail, role |-> "guest"] }
                    ELSE { AuthUser }
         /\ nextUserId = IF present THEN 3 ELSE 2
    /\ bookings = {}
    /\ nextBookingId = 1
    /\ pc = [p \in Procs |-> "idle"]
    /\ op = [p \in Procs |-> NoOp]
    /\ local = [p \in Procs |-> NoLocal]
    /\ out = NoOut
    /\ started = 0
    /\ guestMade = {}
    /\ resolved = {}
    /\ pnrPc = "idle"
    /\ pnrI = 0
    /\ pnrResult = << >>
    /\ statusLogger = [isLogging |-> FALSE, lastCheck |-> FALSE, timers |-> 0,
                       inFlight |-> 0, fetches |-> 0, calls |-> 0]
    /\ hook = [isChecking |-> FALSE, awaited |-> 0, resuming |-> 0,
               effects |-> 0]
    /\ serviceLogger = [services |-> [s \in Services |-> "none"],
                        logInterval |-> TRUE, intervals |-> 1,
                        timeout |-> TRUE,
                        pending |-> [s \in Services |-> 1],
                        updates |-> [s \in Services |-> 0],
                        rechecks |-> 0, report |-> << >>]
    /\ checker = [pc |-> "idle", env |-> NoEnv, services |-> << >>,
                  summary |-> NoSummary]

\* ---------------------------------------------------------- responses
Response(status, success, message) ==
    [tag |-> "response", status |-> status, success |-> success,
     message |-> message]
Data(rows) == [tag |-> "data", data |-> single(rows), error |-> singleError(rows)]
Thrown(message) == [tag |-> "throw", message |-> message]
Returned(id) == [tag |-> "id", id |-> id]
\* `Failed to create guest user: ${error?.message}`: the insert was rejected
\* because the email is taken, or it failed for another reason
DuplicateKey == "Failed to create guest user: duplicate key value"
StoreError == "Failed to create guest user: store error"

\* bookings a running createGuestBooking is still going to insert
PendingCreates == Cardinality({ q \in Procs : Running(q) /\ op[q].kind = "create" })
RoomForBooking == Cardinality(bookings) + PendingCreates < MaxBookings

\* Handlers are interchangeable: a new request runs in the lowest free slot.
Free(p) == ~ Running(p) /\ \A q \in Procs : q < p => Running(q)

\* A request arrives and its handler starts to run.
Accept(p) ==
    /\ Free(p)
    /\ started < MaxOps
    /\ started' = started + 1

\* Operation o of p, with local variables l, is suspended at its next await.
Goto(p, o, l, label) ==
    /\ pc' = [pc EXCEPT ![p] = label]
    /\ op' = [op EXCEPT ![p] = o]
    /\ local' = [local EXCEPT ![p] = l]
    /\ out' = NoOut
    /\ UNCHANGED << generator, health >>

\* Operation o of p returns, throws or sends its response r.
Finish(p, o, l, r) ==
    /\ pc' = [pc EXCEPT ![p] = "idle"]
    /\ op' = [op EXCEPT ![p] = NoOp]
    /\ local' = [local EXCEPT ![p] = NoLocal]
    /\ out' = [op |-> o, local |-> l, ret |-> r]
    /\ UNCHANGED << generator, health >>

\* getOrCreateGuestUser returns l.guestUserId to its caller, which goes on
\* to its next await.
Continue(p, o, l) ==
    /\ resolved' = resolved \cup { l.guestUserId }
    /\ IF o.kind = "resolve"
       THEN Finish(p, o, l, Returned(l.guestUserId))
       ELSE Goto(p, o, l, IF o.kind = "create" THEN "insert_booking"
                          ELSE "select_booking")

\* getOrCreateGuestUser, first await: look the guest user up by email
LookupGuestUser(p, o, l) ==
    LET existingUser == single(SelectGuestUser)
    IN /\ IF existingUser # Null
          THEN Continue(p, o, [l EXCEPT !.guestUserId = existingUser.id])
          ELSE /\ Goto(p, o, l, "insert_user")
               /\ UNCHANGED resolved
       /\ UNCHANGED << store, guestMade >>

\* a direct call of supabaseServerHelpers.getOrCreateGuestUser()
StartResolve(p) ==
    /\ Accept(p)
    /\ LookupGuestUser(p, [kind |-> "resolve"], NoLocal)

\* createGuestBooking(bookingData): const pnr = this.generatePNR(), then
\* await this.getOrCreateGuestUser()
StartCreateGuestBooking(p) ==
    /\ Accept(p)
    /\ RoomForBooking
    /\ \E draws \in PNRDraws, email \in ContactInputs :
         LookupGuestUser(p, [kind |-> "create", pnr |-> generatePNR(draws),
                             email |-> email], NoLocal)

\* The guest bookings stored under a locator and a contact address.
GuestMadeMatching(pnr, email) ==
    { b.id : b \in { r \in bookings : r.id \in guestMade /\ r.pnr = pnr
                                      /\ r.contact_email = email } }

\* getGuestBookingByPNR(pnr, email): await this.getOrCreateGuestUser().
\* pre records the matching guest bookings stored before the call.
StartGetGuestBookingByPNR(p) ==
    /\ Accept(p)
    /\ \E pnr \in Locators, email \in Emails :
         LookupGuestUser(p, [kind |-> "lookup", pnr |-> pnr, email |-> email,
                             again |-> NoAgain],
                         [NoLocal EXCEPT !.pre = GuestMadeMatching(pnr, email)])

\* The caller that was just given a booking calls getGuestBookingByPNR again
\* with the same pnr and email. again records what the first call returned
\* and the bookings stored then; the call is suspended at the first await
\* of its getOrCreateGuestUser().
RepeatGetGuestBookingByPNR(p) ==
    /\ Free(p)
    /\ out.op.kind = "lookup" /\ out.ret.tag = "data" /\ out.ret.data # Null
    /\ ~ out.op.again.called
    /\ Goto(p, [out.op EXCEPT !.again = [called |-> TRUE, data |-> out.ret.data,
                                         bookings |-> bookings]],
            [NoLocal EXCEPT !.pre = GuestMadeMatching(out.op.pnr, out.op.email)],
            "select_user")
    /\ UNCHANGED << store, started, guestMade, resolved >>

\* getOrCreateGuestUser of a repeated call, first await
ResolveGuestUser(p) ==
    /\ pc[p] = "select_user"
    /\ LookupGuestUser(p, op[p], local[p])
    /\ UNCHANGED started

\* InsertGuestUser that goes on without an identifier when the insert fails
InsertGuestUserGoingOn(p) ==
    /\ pc[p] = "insert_user"
    /\ IF InsertUserRejected(guestEmail)
       THEN /\ Continue(p, op[p], local[p])
            /\ UNCHANGED << users, nextUserId >>
       ELSE \E storeError \in BOOLEAN :
              IF storeError
              THEN /\ Continue(p, op[p], local[p])
                   /\ UNCHANGED << users, nextUserId >>
              ELSE LET newUser == [id |-> nextUserId, email |-> guestEmail,
                                   role |-> "guest"]
                   IN /\ users' = users \cup { newUser }
                      /\ nextUserId' = nextUserId + 1
                      /\ Continue(p, op[p],
                                  [local[p] EXCEPT !.newUser = newUser,
                                                   !.guestUserId = newUser.id])
    /\ UNCHANGED << bookings, emailUnique, nextBookingId, started, guestMade >>

\* getOrCreateGuestUser, second await: insert the guest user; throw when
\* the insert returned an error or no row
InsertGuestUser(p) ==
    /\ pc[p] = "insert_user"
    /\ IF InsertUserRejected(guestEmail)
       THEN /\ Finish(p, op[p], local[p], Thrown(DuplicateKey))
            /\ UNCHANGED << users, nextUserId, resolved >>
       ELSE \E storeError \in BOOLEAN :
              IF storeError
              THEN /\ Finish(p, op[p], local[p], Thrown(StoreError))
                   /\ UNCHANGED << users, nextUserId, resolved >>
              ELSE LET newUser == [id |-> nextUserId, email |-> guestEmail,
                                   role |-> "guest"]
                   IN /\ users' = users \cup { newUser }
                      /\ nextUserId' = nextUserId + 1
                      /\ Continue(p, op[p],
                                  [local[p] EXCEPT !.newUser = newUser,
                                                   !.guestUserId = newUser.id])
    /\ UNCHANGED << bookings, emailUnique, nextBookingId, started, guestMade >>

\* InsertGuestBooking with status "confirmed"
InsertGuestBookingConfirmed(p) ==
    /\ pc[p] = "insert_booking"
    /\ LET row == [id |-> nextBookingId, pnr |-> op[p].pnr,
                   contact_email |-> op[p].email,
                   user_id |-> local[p].guestUserId, status |-> "confirmed",
                   is_guest |-> IsGuestDefault]
       IN /\ bookings' = bookings \cup { row }
          /\ nextBookingId' = nextBookingId + 1
          /\ guestMade' = guestMade \cup { row.id }
          /\ Finish(p, op[p], [local[p] EXCEPT !.booking = row], Data({ row }))
    /\ UNCHANGED << users, emailUnique, nextUserId, started, resolved >>

\* createGuestBooking, last await: insert the booking for the guest user
InsertGuestBooking(p) ==
    /\ pc[p] = "insert_booking"
    /\ LET row == [id |-> nextBookingId, pnr |-> op[p].pnr,
                   contact_email |-> op[p].email,
                   user_id |-> local[p].guestUserId, status |-> "pending",
                   is_guest |-> IsGuestDefault]
       IN /\ bookings' = bookings \cup { row }
          /\ nextBookingId' = nextBookingId + 1
          /\ guestMade' = guestMade \cup { row.id }
          /\ Finish(p, op[p], [local[p] EXCEPT !.booking = row], Data({ row }))
    /\ UNCHANGED << users, emailUnique, nextUserId, started, resolved >>

\* SelectBooking that also writes the rows it matched
SelectBookingAndConfirm(p) ==
    /\ pc[p] = "select_booking"
    /\ LET rows == SelectGuestBooking(op[p].pnr, op[p].email,
                                      local[p].guestUserId)
       IN /\ Finish(p, op[p], [local[p] EXCEPT !.booking = single(rows)], Data(rows))
          /\ bookings' = (bookings \ rows)
                            \cup { [b EXCEPT !.status = "confirmed"] : b \in rows }
    /\ UNCHANGED << users, emailUnique, nextUserId, nextBookingId, started,
                    guestMade, resolved >>

\* getGuestBookingByPNR, last await: the three-way query, .single()
SelectBooking(p) ==
    /\ pc[p] = "select_booking"
    /\ LET rows == SelectGuestBooking(op[p].pnr, op[p].email,
                                      local[p].guestUserId)
       IN Finish(p, op[p], [local[p] EXCEPT !.booking = single(rows)], Data(rows))
    /\ UNCHANGED << store, started, guestMade, resolved >>

\* ------------------------------------------- guest payment-intent handler
\* if (booking.pnr !== pnr || booking.contact_email !== contactEmail): the
\* verification of the handler has passed when this is false
PaymentVerified(booking, pnr, contactEmail) ==
    ~ (booking.pnr # pnr \/ booking.contact_email # contactEmail)

\* Request bodies: every combination of present fields, and bodies that
\* lack bookingId, amount, pnr or contactEmail (0 and "" are the absent field).
PaymentRequests ==
    { [kind |-> "payment", bookingId |-> b, amount |-> 100, pnr |-> l,
       contactEmail |-> e] : b \in 1..MaxBookings, l \in Locators, e \in Emails }
    \cup
    { [kind |-> "payment", bookingId |-> 0, amount |-> 100,
       pnr |-> l, contactEmail |-> "a@example.com"] : l \in Locators }
    \cup
    { [kind |-> "payment", bookingId |-> 1, amount |-> 0,
       pnr |-> l, contactEmail |-> "a@example.com"] : l \in Locators }
    \cup
    { [kind |-> "payment", bookingId |-> 1, amount |-> 100,
       pnr |-> EmptyString, contactEmail |-> e] : e \in Emails }
    \cup
    { [kind |-> "payment", bookingId |-> 1, amount |-> 100,
       pnr |-> l, contactEmail |-> NoEmail] : l \in Locators }

VerificationFailed == Response(403, FALSE, "Booking verification failed")

\* Whether await getBookingById(bookingId) rejects instead of resolving to
\* { data, error }: it may for any request; the requests it is explored
\* for are the ones that name the first booking.
Rejections(o) == IF o.bookingId = 1 THEN BOOLEAN ELSE { FALSE }

\* StartPaymentIntent without the check of booking.status
StartPaymentIntentAnyStatus(p) ==
    /\ Accept(p)
    /\ \E o \in PaymentRequests :
        LET rows == SelectBookingById(o.bookingId)
            booking == single(rows)
            bookingError == singleError(rows)
            l == [NoLocal EXCEPT !.booking = booking]
        IN IF o.bookingId = 0 \/ o.amount = 0
           THEN Finish(p, o, NoLocal, Response(400, FALSE,
                       "Missing required fields: bookingId and amount"))
           ELSE IF o.pnr = EmptyString \/ o.contactEmail = NoEmail
           THEN Finish(p, o, NoLocal, Response(400, FALSE,
                       "Missing required fields for guest booking: pnr and contactEmail"))
           ELSE \E rejects \in Rejections(o) :
           IF rejects
           THEN Finish(p, o, NoLocal, Response(200, TRUE,
                       "Payment will be simulated in demo mode"))
           ELSE IF bookingError # "none" \/ booking = Null
           THEN Finish(p, o, l, Response(404, FALSE, "Booking not found"))
           ELSE IF ~ PaymentVerified(booking, o.pnr, o.contactEmail)
           THEN Finish(p, o, l, VerificationFailed)
           ELSE \E isConfigured \in BOOLEAN :
                  IF ~ isConfigured
                  THEN Finish(p, o, l, Response(200, TRUE,
                              "Stripe demo mode - payment will be simulated"))
                  ELSE Goto(p, o, l, "create_intent")
    /\ UNCHANGED << store, guestMade, resolved >>

\* handleCreateGuestStripePaymentIntent up to its second await: the checks
\* of the request body, await getBookingById(bookingId), the checks of the
\* booking and StripeService.isConfigured(). The await is inside the inner
\* try: when it rejects, the inner catch answers in demo mode.
StartPaymentIntent(p) ==
    /\ Accept(p)
    /\ \E o \in PaymentRequests :
        LET rows == SelectBookingById(o.bookingId)
            booking == single(rows)
            bookingError == singleError(rows)
            l == [NoLocal EXCEPT !.booking = booking]
        IN IF o.bookingId = 0 \/ o.amount = 0
           THEN Finish(p, o, NoLocal, Response(400, FALSE,
                       "Missing required fields: bookingId and amount"))
           ELSE IF o.pnr = EmptyString \/ o.contactEmail = NoEmail
           THEN Finish(p, o, NoLocal, Response(400, FALSE,
                       "Missing required fields for guest booking: pnr and contactEmail"))
           ELSE \E rejects \in Rejections(o) :
           IF rejects
           THEN Finish(p, o, NoLocal, Response(200, TRUE,
                       "Payment will be simulated in demo mode"))
           ELSE IF bookingError # "none" \/ booking = Null
           THEN Finish(p, o, l, Response(404, FALSE, "Booking not found"))
           ELSE IF ~ PaymentVerified(booking, o.pnr, o.contactEmail)
           THEN Finish(p, o, l, VerificationFailed)
           ELSE IF booking.status # "pending"
           THEN Finish(p, o, l, Response(400, FALSE,
                                         "Booking is not eligible for payment"))
           ELSE \E isConfigured \in BOOLEAN :
                  IF ~ isConfigured
                  THEN Finish(p, o, l, Response(200, TRUE,
                              "Stripe demo mode - payment will be simulated"))
                  ELSE Goto(p, o, l, "create_intent")
    /\ UNCHANGED << store, guestMade, resolved >>

\* CreatePaymentIntent that marks the booking confirmed when the intent is
\* created
CreatePaymentIntentConfirming(p) ==
    /\ pc[p] = "create_intent"
    /\ \E resolves \in BOOLEAN :
         /\ Finish(p, op[p], local[p],
                   IF resolves
                   THEN Response(200, TRUE, "payment intent created")
                   ELSE Response(200, TRUE, "Payment will be simulated in demo mode"))
         /\ bookings' = IF resolves
                        THEN { IF b.id = op[p].bookingId
                               THEN [b EXCEPT !.status = "confirmed"] ELSE b :
                               b \in bookings }
                        ELSE bookings
    /\ UNCHANGED << users, emailUnique, nextUserId, nextBookingId, started,
                    guestMade, resolved >>

\* await StripeService.createPaymentIntent(..): it resolves, or it throws
\* and the inner catch answers in demo mode
CreatePaymentIntent(p) ==
    /\ pc[p] = "create_intent"
    /\ \E resolves \in BOOLEAN :
         Finish(p, op[p], local[p],
                IF resolves
                THEN Response(200, TRUE, "payment intent created")
                ELSE Response(200, TRUE, "Payment will be simulated in demo mode"))
    /\ UNCHANGED << store, started, guestMade, resolved >>

\* ------------------------------------------------ other booking operations
\* createBooking(bookingData) for the booking of an authenticated user
CreateBooking ==
    /\ RoomForBooking
    /\ \E draws \in PNRDraws, email \in AuthContacts :
         bookings' = bookings \cup
            { [id |-> nextBookingId, pnr |-> generatePNR(draws),
               contact_email |-> email, user_id |-> AuthUser.id,
               status |-> "pending", is_guest |-> IsGuestDefault] }
    /\ nextBookingId' = nextBookingId + 1
    /\ started < MaxOps
    /\ started' = started + 1
    /\ out' = NoOut
    /\ UNCHANGED << users, emailUnique, nextUserId, pc, op, local,
                    guestMade, resolved, generator, health >>

\* UpdateBookingStatus that removes the row it cancels
UpdateBookingStatusDeleting ==
    /\ \E b \in bookings, status \in Statuses :
         /\ status # b.status
         /\ bookings' = IF status = "cancelled"
                        THEN bookings \ { b }
                        ELSE (bookings \ { b }) \cup { [b EXCEPT !.status = status] }
    /\ started < MaxOps
    /\ started' = started + 1
    /\ out' = NoOut
    /\ UNCHANGED << users, emailUnique, nextUserId, nextBookingId, pc, op,
                    local, guestMade, resolved, generator, health >>

\* updateBookingStatus(id, status): update(..).eq("id", id)
UpdateBookingStatus ==
    /\ \E b \in bookings, status \in Statuses :
         /\ status # b.status
         /\ bookings' = (bookings \ { b }) \cup { [b EXCEPT !.status = status] }
    /\ started < MaxOps
    /\ started' = started + 1
    /\ out' = NoOut
    /\ UNCHANGED << users, emailUnique, nextUserId, nextBookingId, pc, op,
                    local, guestMade, resolved, generator, health >>

\* updates of updateBooking(id, updates): a Partial of the bookings columns
BookingUpdates ==
    { [pnr |-> l] : l \in Locators }
    \cup { [status |-> s] : s \in Statuses }
    \cup { [contact_email |-> e] : e \in Emails }

\* the row after update({ ...updates }): the columns named are overwritten
Updated(b, updates) ==
    [b EXCEPT
       !.pnr = IF "pnr" \in DOMAIN updates THEN updates.pnr ELSE @,
       !.status = IF "status" \in DOMAIN updates THEN updates.status ELSE @,
       !.contact_email = IF "contact_email" \in DOMAIN updates
                         THEN updates.contact_email ELSE @]

\* updateBooking(id, updates): update({ ...updates, updated_at }).eq("id", id)
UpdateBooking ==
    /\ \E b \in bookings, updates \in BookingUpdates :
         /\ Updated(b, updates) # b
         /\ bookings' = (bookings \ { b }) \cup { Updated(b, updates) }
    /\ started < MaxOps
    /\ started' = started + 1
    /\ out' = NoOut
    /\ UNCHANGED << users, emailUnique, nextUserId, nextBookingId, pc, op,
                    local, guestMade, resolved, generator, health >>

Step(p) ==
    \/ StartResolve(p)
    \/ StartCreateGuestBooking(p)
    \/ StartGetGuestBookingByPNR(p)
    \/ StartPaymentIntent(p)
    \/ RepeatGetGuestBookingByPNR(p)
    \/ ResolveGuestUser(p)
    \/ InsertGuestUser(p)
    \/ InsertGuestBooking(p)
    \/ SelectBooking(p)
    \/ CreatePaymentIntent(p)

Next ==
    \/ \E p \in Procs : Step(p)
    \/ CreateBooking
    \/ UpdateBookingStatus
    \/ UpdateBooking

Spec == Init /\ [][Next]_vars

\* One request at a time: a handler starts and runs only while no other is
\* suspended at an await.
Alone(p) == \A q \in Procs \ { p } : ~ Running(q)
Quiet == \A q \in Procs : ~ Running(q)

NextSeq ==
    \/ \E p \in Procs : Alone(p) /\ Step(p)
    \/ Quiet /\ CreateBooking
    \/ Quiet /\ UpdateBookingStatus
    \/ Quiet /\ UpdateBooking

SpecSeq == Init /\ [][NextSeq]_vars

\* ------------------------------------------------ generatePNR, step by step
\* Math.floor(Math.random() * chars.length): any index of chars; the ones
\* drawn here are the first and last letter and the first and last digit
RandomIndexes == { 0, 25, 26, 35 }

\* result += c: nothing is appended when c is the empty string
Concat(result, c) == IF c = "" THEN result ELSE Append(result, c)

\* let result = ""; for (let i = 0; ...
CallGeneratePNR ==
    /\ pnrPc = "idle"
    /\ pnrPc' = "loop"
    /\ pnrI' = 0
    /\ pnrResult' = << >>
    /\ UNCHANGED << server, health >>

\* i < 6: result += chars.charAt(Math.floor(Math.random() * chars.length)); i++
DrawChar ==
    /\ pnrPc = "loop"
    /\ pnrI < PnrLength
    /\ \E k \in RandomIndexes : pnrResult' = Concat(pnrResult, charAt(k))
    /\ pnrI' = pnrI + 1
    /\ UNCHANGED << server, health, pnrPc >>

\* the loop condition fails: return result
ReturnPNR ==
    /\ pnrPc = "loop"
    /\ ~ (pnrI < PnrLength)
    /\ pnrPc' = "returned"
    /\ UNCHANGED << server, health, pnrI, pnrResult >>

\* the caller has the string; the next call may start
TakePNR ==
    /\ pnrPc = "returned"
    /\ pnrPc' = "idle"
    /\ UNCHANGED << server, health, pnrI, pnrResult >>

NextPNR ==
    \/ CallGeneratePNR
    \/ DrawChar
    \/ ReturnPNR
    \/ TakePNR

SpecPNR == Init /\ [][NextPNR]_vars

\* ------------------------------- ServiceStatusLogger and useServiceStatus
\* checkAndLogServices without the test of isLogging
checkAndLogServicesUnguarded(sl) ==
    [sl EXCEPT !.isLogging = TRUE, !.inFlight = @ + 1, !.fetches = @ + 1]

\* checkAndLogServices() up to await this.fetchServicesStatus(): return at
\* once when isLogging, otherwise set isLogging and start the fetch
checkAndLogServices(sl) ==
    IF sl.isLogging
    THEN sl
    ELSE [sl EXCEPT !.isLogging = TRUE, !.inFlight = @ + 1, !.fetches = @ + 1]

\* startPeriodicChecking(): the initial check, then setInterval(..)
startPeriodicChecking(sl) ==
    [checkAndLogServices(sl) EXCEPT !.timers = @ + 1]

\* handleServiceCheck() up to its await: setIsChecking(true), then the call
\* of checkAndLogServices(), which was made on logger sl: its promise is
\* already resolved when the logger returned at once
handleServiceCheck(hk, sl) ==
    IF sl.isLogging
    THEN [hk EXCEPT !.isChecking = TRUE, !.resuming = @ + 1]
    ELSE [hk EXCEPT !.isChecking = TRUE, !.awaited = @ + 1]

\* No continuation of a resolved promise is waiting: a new task may run.
TaskMayRun == hook.resuming = 0

\* manualCheck() of the hook
ManualCheck ==
    /\ TaskMayRun
    /\ statusLogger.calls < MaxChecks
    /\ statusLogger' = [checkAndLogServices(statusLogger) EXCEPT !.calls = @ + 1]
    /\ hook' = handleServiceCheck(hook, statusLogger)
    /\ UNCHANGED << server, generator, serviceLogger, checker >>

\* The effect of useServiceStatus runs (mount, or a change of its options).
RunEffect ==
    /\ TaskMayRun
    /\ hook.effects < MaxEffects
    /\ \E checkOnMount, enablePeriodicChecking \in BOOLEAN :
         LET checked == IF checkOnMount
                        THEN checkAndLogServices(statusLogger)
                        ELSE statusLogger
             handled == IF checkOnMount
                        THEN handleServiceCheck(hook, statusLogger)
                        ELSE hook
         IN /\ statusLogger' = IF enablePeriodicChecking
                               THEN startPeriodicChecking(checked)
                               ELSE checked
            /\ hook' = [handled EXCEPT !.effects = @ + 1]
    /\ UNCHANGED << server, generator, serviceLogger, checker >>

\* An interval timer fires: this.checkAndLogServices()
TimerFires ==
    /\ TaskMayRun
    /\ statusLogger.timers > 0
    /\ statusLogger.calls < MaxChecks
    /\ statusLogger' = [checkAndLogServices(statusLogger) EXCEPT !.calls = @ + 1]
    /\ UNCHANGED << server, generator, hook, serviceLogger, checker >>

\* fetchServicesStatus() settles: a result, null (the fetch failed), or the
\* logging of the result throws; finally isLogging = false. The
\* handleServiceCheck calls that awaited the check may go on.
FetchSettles ==
    /\ TaskMayRun
    /\ statusLogger.inFlight > 0
    /\ \E outcome \in { "result", "null", "throws" } :
         statusLogger' = [statusLogger EXCEPT
                            !.isLogging = FALSE,
                            !.inFlight = @ - 1,
                            !.lastCheck = @ \/ outcome = "result"]
    /\ hook' = [hook EXCEPT !.resuming = @ + hook.awaited, !.awaited = 0]
    /\ UNCHANGED << server, generator, serviceLogger, checker >>

\* handleServiceCheck after its await: finally setIsChecking(false)
HandlerResumes ==
    /\ hook.resuming > 0
    /\ hook' = [hook EXCEPT !.isChecking = FALSE, !.resuming = @ - 1]
    /\ UNCHANGED << server, generator, statusLogger, serviceLogger, checker >>

NextStatus ==
    \/ ManualCheck
    \/ RunEffect
    \/ TimerFires
    \/ FetchSettles
    \/ HandlerResumes

SpecStatus == Init /\ [][NextStatus]_vars

\* ------------------------------------------------------------ ServiceLogger
\* checkService whose catch block records nothing
checkServiceSilentCatch(sv, s, outcome) ==
    IF outcome = "throws"
    THEN [sv EXCEPT !.pending[s] = @ - 1]
    ELSE [sv EXCEPT !.services[s] = outcome,
                    !.pending[s] = @ - 1,
                    !.updates[s] = @ + 1]

\* checkService(serviceName, checkFunction) after await checkFunction():
\* updateServiceStatus with result.status, or with "error" in the catch
checkService(sv, s, outcome) ==
    [sv EXCEPT !.services[s] = IF outcome = "throws" THEN "error" ELSE outcome,
               !.pending[s] = @ - 1,
               !.updates[s] = @ + 1]

\* what logServiceStatus() prints: nothing but "still being checked" for an
\* empty map, else the numbers working, errors and total of the summary
logServiceStatus(sv) ==
    LET serviceList == { s \in Services : sv.services[s] # "none" }
        working == Cardinality({ s \in serviceList : sv.services[s] = "working" })
        errors == Cardinality({ s \in serviceList : sv.services[s] = "error" })
    IN IF serviceList = {}
       THEN << "checking" >>
       ELSE << working, errors, Cardinality(serviceList) >>

\* The promise of a check function settles: it resolves with the status
\* working or error, or it rejects.
CheckSettles(s) ==
    /\ serviceLogger.pending[s] > 0
    /\ \E outcome \in { "working", "error", "throws" } :
         serviceLogger' = checkService(serviceLogger, s, outcome)
    /\ UNCHANGED << server, generator, monitor >>

\* recheckServices(): checkInitialServices() again
Recheck ==
    /\ serviceLogger.rechecks < MaxRechecks
    /\ serviceLogger' =
         [serviceLogger EXCEPT
            !.rechecks = @ + 1,
            !.pending = [s \in Services |-> serviceLogger.pending[s] + 1]]
    /\ UNCHANGED << server, generator, monitor >>

\* The interval of startLogging fires: logServiceStatus() when the tab is
\* visible
IntervalFires ==
    /\ serviceLogger.intervals > 0
    /\ \E visible \in BOOLEAN :
         serviceLogger' =
            [serviceLogger EXCEPT
               !.report = IF visible THEN logServiceStatus(serviceLogger) ELSE @]
    /\ UNCHANGED << server, generator, monitor >>

\* The timeout of startLogging fires, once: logServiceStatus()
TimeoutFires ==
    /\ serviceLogger.timeout
    /\ serviceLogger' = [serviceLogger EXCEPT
                            !.timeout = FALSE,
                            !.report = logServiceStatus(serviceLogger)]
    /\ UNCHANGED << server, generator, monitor >>

\* stop(): clearInterval(this.logInterval) when it is set
Stop ==
    /\ serviceLogger' =
         IF serviceLogger.logInterval
         THEN [serviceLogger EXCEPT !.intervals = @ - 1, !.logInterval = FALSE]
         ELSE serviceLogger
    /\ UNCHANGED << server, generator, monitor >>

NextLogger ==
    \/ \E s \in Services : CheckSettles(s)
    \/ Recheck
    \/ IntervalFires
    \/ TimeoutFires
    \/ Stop

\* Every promise of a check function settles in the end.
FairLogger == \A s \in Services : WF_vars(CheckSettles(s))

SpecLogger == Init /\ [][NextLogger]_vars /\ FairLogger

\* ----------------------------------------------------- ServiceStatusChecker
\* String.prototype.includes and startsWith on the pieces of a value, and
\* the truth value JavaScript gives a text
includes(v, piece) == \E i \in 1..Len(v) : v[i] = piece
startsWith(v, piece) == Len(v) > 0 /\ v[1] = piece
truthy(v) == v # << >>

NotConfigured(name) ==
    [name |-> name, configured |-> FALSE, status |-> "not_configured"]
Checked(name, status) ==
    [name |-> name, configured |-> TRUE, status |-> status]

\* outcome is that of the query on the users table: "ok", "error" in the
\* answer, or "throws"
checkSupabase(env, outcome) ==
    LET configured ==
            /\ truthy(env.SUPABASE_URL)
            /\ truthy(env.SUPABASE_SERVICE_ROLE_KEY)
            /\ ~ includes(env.SUPABASE_URL, "placeholder")
            /\ env.SUPABASE_SERVICE_ROLE_KEY
                  # << "placeholder", "-service-role-key" >>
    IN IF ~ configured
       THEN NotConfigured("Supabase Database")
       ELSE Checked("Supabase Database",
                    IF outcome = "ok" THEN "working" ELSE "error")

checkStripe(env) ==
    LET configured ==
            /\ truthy(env.STRIPE_SECRET_KEY)
            /\ truthy(env.STRIPE_PUBLISHABLE_KEY)
            /\ ~ includes(env.STRIPE_SECRET_KEY, "placeholder")
    IN IF ~ configured
       THEN NotConfigured("Stripe Payments")
       ELSE IF ~ startsWith(env.STRIPE_SECRET_KEY, "sk_")
       THEN Checked("Stripe Payments", "error")
       ELSE Checked("Stripe Payments", "working")

checkSendGrid(env) ==
    LET configured ==
            /\ truthy(env.SENDGRID_API_KEY)
            /\ ~ includes(env.SENDGRID_API_KEY, "placeholder")
    IN IF ~ configured
       THEN NotConfigured("SendGrid Email")
       ELSE IF ~ startsWith(env.SENDGRID_API_KEY, "SG.")
       THEN Checked("SendGrid Email", "error")
       ELSE Checked("SendGrid Email", "working")

\* checkAmadeus that answers working without looking at configured
checkAmadeusAlwaysWorking(env) ==
    LET configured ==
            /\ truthy(env.AMADEUS_API_KEY)
            /\ truthy(env.AMADEUS_API_SECRET)
            /\ ~ includes(env.AMADEUS_API_KEY, "placeholder")
    IN [name |-> "Amadeus Flight API", configured |-> configured,
        status |-> "working"]

checkAmadeus(env) ==
    LET configured ==
            /\ truthy(env.AMADEUS_API_KEY)
            /\ truthy(env.AMADEUS_API_SECRET)
            /\ ~ includes(env.AMADEUS_API_KEY, "placeholder")
    IN IF ~ configured
       THEN NotConfigured("Amadeus Flight API")
       ELSE Checked("Amadeus Flight API", "working")

checkPayPal(env) ==
    LET configured ==
            /\ truthy(env.PAYPAL_CLIENT_ID)
            /\ truthy(env.PAYPAL_CLIENT_SECRET)
            /\ ~ includes(env.PAYPAL_CLIENT_ID, "placeholder")
    IN IF ~ configured
       THEN NotConfigured("PayPal Payments")
       ELSE Checked("PayPal Payments", "working")

\* the summary checkAllServices returns for the results of the checks
Summary(services) ==
    [total |-> Len(services),
     working |-> Cardinality({ i \in 1..Len(services) :
                                 services[i].status = "working" }),
     configured |-> Cardinality({ i \in 1..Len(services) :
                                    services[i].configured })]

CheckerOthers == << server, generator, statusLogger, hook, serviceLogger >>

\* GET /api/services calls checkAllServices(); the process has some
\* environment
CallCheckAllServices ==
    /\ checker.pc = "idle"
    /\ \E env \in Environments :
         checker' = [pc |-> "supabase", env |-> env, services |-> << >>,
                     summary |-> NoSummary]
    /\ UNCHANGED CheckerOthers

CheckSupabase ==
    /\ checker.pc = "supabase"
    /\ \E outcome \in { "ok", "error", "throws" } :
         checker' = [checker EXCEPT
                       !.pc = "stripe",
                       !.services = Append(@, checkSupabase(checker.env, outcome))]
    /\ UNCHANGED CheckerOthers

CheckStripe ==
    /\ checker.pc = "stripe"
    /\ checker' = [checker EXCEPT
                      !.pc = "sendgrid",
                      !.services = Append(@, checkStripe(checker.env))]
    /\ UNCHANGED CheckerOthers

CheckSendGrid ==
    /\ checker.pc = "sendgrid"
    /\ checker' = [checker EXCEPT
                      !.pc = "amadeus",
                      !.services = Append(@, checkSendGrid(checker.env))]
    /\ UNCHANGED CheckerOthers

CheckAmadeus ==
    /\ checker.pc = "amadeus"
    /\ checker' = [checker EXCEPT
                      !.pc = "paypal",
                      !.services = Append(@, checkAmadeus(checker.env))]
    /\ UNCHANGED CheckerOthers

CheckPayPal ==
    /\ checker.pc = "paypal"
    /\ checker' = [checker EXCEPT
                      !.pc = "summary",
                      !.services = Append(@, checkPayPal(checker.env))]
    /\ UNCHANGED CheckerOthers

ReturnSummary ==
    /\ checker.pc = "summary"
    /\ checker' = [checker EXCEPT
                      !.pc = "done",
                      !.summary = Summary(checker.services)]
    /\ UNCHANGED CheckerOthers

NextChecker ==
    \/ CallCheckAllServices
    \/ CheckSupabase
    \/ CheckStripe
    \/ CheckSendGrid
    \/ CheckAmadeus
    \/ CheckPayPal
    \/ ReturnSummary

SpecChecker == Init /\ [][NextChecker]_vars

\* ======================================================== properties
\* The step just taken ended a getGuestBookingByPNR call that returned
\* { data, error } (it did not throw).
LookupReturned == out.op.kind = "lookup" /\ out.ret.tag = "data"
\* The step just taken ended a guest payment-intent request whose body had
\* all its required fields.
PaymentAnswered ==
    /\ out.op.kind = "payment"
    /\ out.op.bookingId # 0 /\ out.op.amount # 0
    /\ out.op.pnr # EmptyString /\ out.op.contactEmail # NoEmail
\* The three-way match of the guest path: the booking exists, its locator
\* and contact address are the supplied ones, its owner is a guest user.
GuestAccess(booking, pnr, contactEmail) ==
    /\ booking # Null
    /\ booking.pnr = pnr
    /\ booking.contact_email = contactEmail
    /\ booking.user_id \in GuestIds

\* C1: in every reachable state the users table holds at most one row whose
\* email is guest@onboardticket.system.
CexC1 == Cardinality(GuestUsers) <= 1

\* C2: when the store enforces uniqueness of users.email, no call of
\* getOrCreateGuestUser (alone or inside createGuestBooking or
\* getGuestBookingByPNR) ends by throwing because its insert met the row of
\* a concurrent caller: concurrent first-time calls all return an identifier.
CexC2 == emailUnique => out.ret # Thrown(DuplicateKey)

\* C3: with one request at a time, from a store with no guest user or one,
\* every call of getOrCreateGuestUser returns unless the store fails its
\* insert (none is rejected as a duplicate), all calls return the same
\* identifier, which is the id of the guest user row, and the store holds
\* at most one guest user row.
ThmC3 ==
    /\ out.ret.tag = "throw" => out.ret = Thrown(StoreError)
    /\ Cardinality(resolved) <= 1
    /\ resolved \subseteq GuestIds
    /\ Cardinality(GuestUsers) <= 1
\* a second call in sequence has returned the identifier the store held
WitC3 ==
    /\ started >= 2
    /\ out.op.kind = "resolve" /\ out.ret.tag = "id"
    /\ out.local.newUser = Null
    /\ resolved = { out.ret.id }
    /\ Cardinality(GuestUsers) = 1

\* C4: a booking getGuestBookingByPNR returns has as user_id the identifier
\* of a guest user row (the one its resolver returned), never that of an
\* authenticated user.
ThmC4 ==
    (LookupReturned /\ out.ret.data # Null) =>
        /\ out.ret.data.user_id \in GuestIds
        /\ out.ret.data.user_id = out.local.guestUserId
        /\ out.ret.data.user_id # AuthUser.id
\* a lookup found nothing although an authenticated user's booking has the
\* locator and the contact address it was given
WitC4 ==
    /\ LookupReturned /\ out.ret.data = Null
    /\ \E b \in bookings : /\ b.pnr = out.op.pnr
                           /\ b.contact_email = out.op.email
                           /\ b.user_id = AuthUser.id

\* C5: the guest payment-intent handler answers 200 only when the booking's
\* pnr and contact_email are the supplied ones and its owner is a guest user.
CexC5 ==
    (PaymentAnswered /\ out.ret.status = 200) =>
        GuestAccess(out.local.booking, out.op.pnr, out.op.contactEmail)

\* C6: when exactly one guest booking with locator L and contact C was
\* stored before getGuestBookingByPNR(L, C) was called, and it is still the
\* only one, the call returns that booking.
CexC6 ==
    ( /\ out.op.kind = "lookup"
      /\ Cardinality(out.local.pre) = 1
      /\ GuestMadeMatching(out.op.pnr, out.op.email) = out.local.pre ) =>
        /\ out.ret.tag = "data"
        /\ out.ret.data # Null
        /\ out.ret.data.id \in out.local.pre

\* C7: whatever getGuestBookingByPNR returns is a stored booking whose pnr
\* and contact_email both equal the inputs, so a pair that differs from a
\* guest booking in its locator or in its contact returns no booking unless
\* another booking matches the pair; likewise a booking the payment-intent
\* handler read and answered 200 for has the supplied pnr and contact_email.
ThmC7 ==
    /\ (LookupReturned /\ out.ret.data # Null) =>
          /\ out.ret.data \in bookings
          /\ out.ret.data.pnr = out.op.pnr
          /\ out.ret.data.contact_email = out.op.email
    /\ (PaymentAnswered /\ out.ret.status = 200 /\ out.local.booking # Null) =>
          /\ out.local.booking.pnr = out.op.pnr
          /\ out.local.booking.contact_email = out.op.contactEmail
\* a lookup with the locator of a guest booking of the resolved owner and
\* another contact address returned no booking
WitC7 ==
    /\ LookupReturned /\ out.ret.data = Null
    /\ \E b \in bookings : /\ b.id \in guestMade
                           /\ b.user_id = out.local.guestUserId
                           /\ b.pnr = out.op.pnr
                           /\ b.contact_email # out.op.email

\* C8: every guest payment-intent request that does not pass the three-way
\* match (no such booking, wrong locator, wrong contact, not a guest
\* booking) gets the same response, the one a wrong contact address gets.
CexC8 ==
    ( /\ PaymentAnswered
      /\ ~ GuestAccess(out.local.booking, out.op.pnr, out.op.contactEmail) ) =>
        out.ret = VerificationFailed

\* C9 as stated: a getGuestBookingByPNR call that returns no booking has
\* left the users table as it was (its resolver inserted no row).
CexC9 ==
    (LookupReturned /\ out.ret.data = Null) => out.local.newUser = Null

\* A step of getGuestBookingByPNR or of the guest payment-intent handler.
VerificationStep ==
    \/ out'.op.kind \in { "lookup", "payment" } /\ out' # NoOut
       /\ (started' # started \/ pc' # pc)
    \/ \E p \in Procs : op'[p].kind \in { "lookup", "payment" } /\ pc'[p] # pc[p]
PaymentStep ==
    \/ out'.op.kind = "payment" /\ (started' # started \/ pc' # pc)
    \/ \E p \in Procs : op'[p].kind = "payment" /\ pc'[p] # pc[p]

\* C9 (amended): no step of getGuestBookingByPNR or of the guest
\* payment-intent handler, failed or not, changes the bookings table or an
\* existing users row; the only write is the insert of a guest user row by
\* the resolver inside getGuestBookingByPNR; the payment-intent handler
\* writes nothing.
ThmC9 ==
    [][ /\ VerificationStep =>
             /\ bookings' = bookings
             /\ users \subseteq users'
             /\ \A u \in users' \ users : u.email = guestEmail
        /\ PaymentStep => users' = users ]_vars
\* a lookup that returned no booking inserted a guest user row
WitC9 ==
    /\ LookupReturned /\ out.ret.data = Null
    /\ out.local.newUser # Null
    /\ out.local.newUser \in users

\* C10: all bookings createGuestBooking inserted carry the same user_id.
CexC10 ==
    \A b1, b2 \in bookings :
        (b1.id \in guestMade /\ b2.id \in guestMade) => b1.user_id = b2.user_id

\* The answer of the status check of the guest payment-intent handler.
NotEligible == Response(400, FALSE, "Booking is not eligible for payment")

\* C11: the guest payment-intent handler goes on to payment only for a
\* booking whose status is pending: a request that passes the locator and
\* contact check for a booking in any other status is answered 400 "Booking
\* is not eligible for payment", that answer is given only after the
\* locator and contact check has passed, and every 200 given for a booking
\* the handler read is for one that was pending then.
ThmC11 ==
    PaymentAnswered =>
        LET booking == out.local.booking
            verified == /\ booking # Null
                        /\ PaymentVerified(booking, out.op.pnr, out.op.contactEmail)
        IN /\ (verified /\ booking.status # "pending") => out.ret = NotEligible
           /\ out.ret = NotEligible => (verified /\ booking.status # "pending")
           /\ (out.ret.status = 200 /\ booking # Null) =>
                 (verified /\ booking.status = "pending")
\* a request with the right locator and contact for a confirmed booking was
\* answered 400
WitC11 ==
    /\ PaymentAnswered
    /\ out.ret = NotEligible
    /\ out.local.booking.status = "confirmed"
    /\ out.local.booking.pnr = out.op.pnr
    /\ out.local.booking.contact_email = out.op.contactEmail

\* C12: the only changes of a booking's status are pending to confirmed and
\* confirmed to cancelled.
CexC12 ==
    [][ \A b \in bookings : \A c \in bookings' :
          (c.id = b.id /\ c.status # b.status) =>
              << b.status, c.status >> \in { << "pending", "confirmed" >>,
                                            << "confirmed", "cancelled" >> } ]_vars

\* C13: the step that ends a createGuestBooking call with a booking adds
\* exactly that one record to the bookings, under a fresh id, with status
\* pending, the generated locator and the caller's contact address; no
\* record createGuestBooking adds has another status.
ThmC13 ==
    [][ /\ (out'.op.kind = "create" /\ out'.ret.tag = "data") =>
             LET row == out'.ret.data
             IN /\ row # Null
                /\ row \notin bookings
                /\ \A b \in bookings : b.id # row.id
                /\ bookings' = bookings \cup { row }
                /\ row.status = "pending"
                /\ row.pnr = out'.op.pnr
                /\ row.contact_email = out'.op.email
        /\ \A b \in bookings' :
             b.id \in guestMade' \ guestMade => b.status = "pending" ]_vars
\* createGuestBooking has returned a second booking, stored as pending
WitC13 ==
    /\ out.op.kind = "create" /\ out.ret.tag = "data"
    /\ out.ret.data \in bookings
    /\ out.ret.data.status = "pending"
    /\ Cardinality(bookings) = 2

\* The characters a locator may hold.
Alphabet ==
    { "A","B","C","D","E","F","G","H","I","J","K","L","M","N","O","P","Q","R",
      "S","T","U","V","W","X","Y","Z","0","1","2","3","4","5","6","7","8","9" }

\* C14: whatever the random draws are, the string generatePNR returns has
\* exactly 6 characters, each a capital letter or a digit; the loop has
\* made exactly 6 draws when it returns, and one character per draw before.
ThmC14 ==
    /\ pnrPc # "idle" =>
          /\ pnrI <= PnrLength
          /\ Len(pnrResult) = pnrI
          /\ \A k \in 1..Len(pnrResult) : pnrResult[k] \in Alphabet
    /\ pnrPc = "returned" => (pnrI = 6 /\ Len(pnrResult) = 6)
\* generatePNR has returned a string holding the first and the last
\* character of chars
WitC14 ==
    /\ pnrPc = "returned"
    /\ pnrResult = << "A", "9", "Z", "0", "A", "9" >>

\* C15: a call of getGuestBookingByPNR that repeats, with the same pnr and
\* email, a call that returned a booking, while the bookings are as they
\* were then, returns that same booking.
CexC15 ==
    ( /\ out.op.kind = "lookup"
      /\ out.op.again.called
      /\ bookings = out.op.again.bookings ) =>
        /\ out.ret.tag = "data"
        /\ out.ret.data = out.op.again.data

\* C16: no step changes the pnr of a stored booking.
CexC16 ==
    [][ \A b \in bookings : \A c \in bookings' :
          c.id = b.id => c.pnr = b.pnr ]_vars

\* C17: no booking createGuestBooking stored has guest@onboardticket.system
\* as its contact_email.
CexC17 ==
    \A b \in bookings : b.id \in guestMade => b.contact_email # guestEmail

\* C18: every booking createGuestBooking stored has user_id NULL and
\* is_guest TRUE; every other booking has a user_id and is_guest FALSE.
CexC18 ==
    \A b \in bookings :
        IF b.id \in guestMade
        THEN b.user_id = Null.id /\ b.is_guest
        ELSE b.user_id # Null.id /\ ~ b.is_guest

\* C19: a step of getGuestBookingByPNR or of the guest payment-intent
\* handler, whether the verification passes or fails, leaves the status and
\* every other field of every stored booking as it was.
ThmC19 ==
    [][ VerificationStep =>
          \A b \in bookings : \A c \in bookings' :
              c.id = b.id => (c.status = b.status /\ c = b) ]_vars
\* a payment intent was created for a booking that is still stored as
\* pending
WitC19 ==
    /\ PaymentAnswered
    /\ out.ret.message = "payment intent created"
    /\ out.local.booking \in bookings
    /\ out.local.booking.status = "pending"

\* C20: no booking is ever removed: every id the store has assigned is the
\* id of exactly one stored booking, and no step makes the set of stored
\* ids lose an element.
ThmC20 ==
    [][ /\ { b.id : b \in bookings } \subseteq { c.id : c \in bookings' }
        /\ Cardinality(bookings') >= Cardinality(bookings)
        /\ \A k \in 1..(nextBookingId' - 1) :
               Cardinality({ c \in bookings' : c.id = k }) = 1 ]_vars
\* the store is full and holds a cancelled booking
WitC20 ==
    /\ Cardinality(bookings) = MaxBookings
    /\ \E b \in bookings : b.status = "cancelled"

\* C21: createGuestBooking inserts its booking only after its
\* getOrCreateGuestUser has returned an identifier: a call waiting to insert
\* holds a generated locator and an identifier the resolver returned, every
\* guest booking stored carries such an identifier, and a call whose
\* resolver threw ends without an identifier and without having inserted.
ThmC21 ==
    /\ \A p \in Procs :
          pc[p] = "insert_booking" =>
              /\ op[p].pnr \in Locators
              /\ local[p].guestUserId # Null.id
              /\ local[p].guestUserId \in resolved
    /\ \A b \in bookings :
          b.id \in guestMade => (b.user_id # Null.id /\ b.user_id \in resolved)
    /\ (out.op.kind = "create" /\ out.ret.tag = "throw") =>
          /\ out.local.guestUserId = Null.id
          /\ out.local.booking = Null
    /\ (out.op.kind = "create" /\ out.ret.tag = "data") =>
          /\ out.local.guestUserId # Null.id
          /\ out.ret.data.user_id = out.local.guestUserId
\* a createGuestBooking call ended by the throw of its resolver while no
\* guest booking is stored
WitC21 ==
    /\ out.op.kind = "create" /\ out.ret.tag = "throw"
    /\ out.local.booking = Null
    /\ guestMade = {}

\* C22: getOrCreateGuestUser throws only when the store holds no guest user
\* row at the moment its insert fails.
CexC22 == out.ret.tag = "throw" => GuestUsers = {}

\* C23: getOrCreateGuestUser goes on to its insert only when its lookup was
\* made on a store with no guest user row.
CexC23 ==
    [][ \A p \in Procs :
          (pc'[p] = "insert_user" /\ pc[p] # "insert_user") =>
              GuestUsers = {} ]_vars

\* C24: when a getOrCreateGuestUser call ends by the throw of its failed
\* insert, the store holds at most one guest user row.
CexC24 == out.ret.tag = "throw" => Cardinality(GuestUsers) <= 1

\* C25: the guest payment-intent handler answers success only when, in the
\* same request, getBookingById gave a booking with the id asked for, whose
\* pnr and contact_email are the supplied ones and whose status is pending.
CexC25 ==
    (out.op.kind = "payment" /\ out.ret.success) =>
        /\ out.local.booking # Null
        /\ out.local.booking.id = out.op.bookingId
        /\ PaymentVerified(out.local.booking, out.op.pnr, out.op.contactEmail)
        /\ out.local.booking.status = "pending"

\* C26: at most one status check of the ServiceStatusLogger is in flight,
\* and isLogging is true exactly while one is: a call made while isLogging
\* starts no fetch, and isLogging is false again once the check has ended,
\* whether its fetch gave a result, gave null or its logging threw.
ThmC26 ==
    /\ statusLogger.inFlight <= 1
    /\ statusLogger.isLogging <=> statusLogger.inFlight = 1
\* a second check is in flight after a first one that ended without a result
WitC26 ==
    /\ statusLogger.fetches >= 2
    /\ ~ statusLogger.lastCheck
    /\ statusLogger.isLogging
    /\ statusLogger.inFlight = 1

\* C27: at most one interval timer of the status logger is scheduled.
CexC27 == statusLogger.timers <= 1

\* C28: while no continuation is waiting to run, isChecking is true exactly
\* when a status check is in flight.
CexC28 ==
    TaskMayRun => (hook.isChecking <=> statusLogger.inFlight > 0)

\* Every check of a service that has ended has called updateServiceStatus
\* once, the map holds one status per service name, which is working or
\* error once the service was updated, and no interval timer is active
\* once logInterval is cleared.
SafeC29 ==
    /\ \A s \in Services :
          /\ serviceLogger.pending[s] + serviceLogger.updates[s]
                = 1 + serviceLogger.rechecks
          /\ serviceLogger.updates[s] > 0 =>
                serviceLogger.services[s] \in { "working", "error" }
    /\ DOMAIN serviceLogger.services = Services
    /\ serviceLogger.intervals <= 1
    /\ ~ serviceLogger.logInterval => serviceLogger.intervals = 0

\* C29: every check of a service that was started ends, provided its check
\* function settles, by one call of updateServiceStatus that records working
\* or error for the service, whether the function resolved or threw; the
\* map holds one entry per service name; after stop() no interval timer is
\* active.
ThmC29 ==
    /\ []SafeC29
    /\ \A s \in Services :
          (serviceLogger.pending[s] > 0) ~>
              ( /\ serviceLogger.pending[s] = 0
                /\ serviceLogger.services[s] \in { "working", "error" } )
\* after a recheck every service has been updated twice, one of them to
\* error, and the logger was stopped
WitC29 ==
    /\ serviceLogger.rechecks = 1
    /\ \A s \in Services : serviceLogger.updates[s] = 2
    /\ \E s \in Services : serviceLogger.services[s] = "error"
    /\ ~ serviceLogger.logInterval
    /\ serviceLogger.intervals = 0

\* C30: in every result of checkAllServices, whatever the environment, a
\* service with status working is reported configured, a service that is
\* not configured has status not_configured, and the summary has
\* working <= configured <= total = 5.
ThmC30 ==
    /\ \A i \in 1..Len(checker.services) :
          /\ checker.services[i].status = "working"
                => checker.services[i].configured
          /\ ~ checker.services[i].configured
                => checker.services[i].status = "not_configured"
    /\ checker.pc = "done" =>
          /\ checker.summary.working <= checker.summary.configured
          /\ checker.summary.configured <= checker.summary.total
          /\ checker.summary.total = 5
          /\ checker.summary = Summary(checker.services)
\* a result with a working service, a configured one in error and one
\* that is not configured because of a placeholder value
WitC30 ==
    /\ checker.pc = "done"
    /\ checker.summary.working = 2
    /\ checker.summary.configured = 3
    /\ includes(checker.env.AMADEUS_API_KEY, "placeholder")
    /\ checker.env.SUPABASE_SERVICE_ROLE_KEY
          = << "placeholder", "-service-role-key" >>
====
